---- MODULE Spec2Model ----
(***************************************************************************)
(* Supplier scorecard variables of erpnext                                 *)
(* (buying/doctype/supplier_scorecard_variable/supplier_scorecard_variable *)
(* .py): the catalogue of metric functions, each an aggregate query over   *)
(* the purchasing tables for one scorecard period, and the validation of   *)
(* a variable's path.                                                      *)
(*                                                                         *)
(* Dates are day numbers, so DATEDIFF(a, b) and (a - b).days are a - b.    *)
(* A value that may be NULL / None is a record [null, v].                  *)
(***************************************************************************)
EXTENDS Integers, FiniteSets, Sequences, TLC

\* ---------------------------------------------------------------- bounds
MaxReceipts == 2
MaxScoresEntered == 2
MaxVariables == 2
MaxDocuments == 2

Suppliers == {"S1", "S2"}
\* The suppliers are interchangeable: the scorecards evaluated are those of
\* one, and the other's rows are rows that must not count.
ScorecardSuppliers == {"S1"}
\* The store holds one purchase order, of one line.
OrderNames == {1}
\* The store holds one request for quotation and one quotation, of one item.
RfqNames == {1}
QuotationNames == {1}
Dates == 1..3
Qtys == {5, 10}
RejectedQtys == {0, 5}
Rates == {2}
ScoreValues == {3}

VARIABLES
    po, po_item,            \* `tabPurchase Order`, `tabPurchase Order Item`
    pr, pr_item,            \* `tabPurchase Receipt`, `tabPurchase Receipt Item`
    rfq, rfq_item, rfq_sup, \* `tabRequest for Quotation` (Item, Supplier)
    sq, sq_item,            \* `tabSupplier Quotation`, `tabSupplier Quotation Item`
    supplier_score,         \* the Supplier Score records, keyed by supplier
    variables,              \* the saved Supplier Scorecard Variable paths
    validation,             \* how the last validate() of a variable ended
    scorecard,              \* the scorecard period last evaluated
    results                 \* what each metric function returned for it

buying == <<po, po_item, pr, pr_item>>
quoting == <<rfq, rfq_item, rfq_sup, sq, sq_item>>
paths == <<variables, validation>>
vars == <<po, po_item, pr, pr_item, rfq, rfq_item, rfq_sup, sq, sq_item,
          supplier_score, variables, validation, scorecard, results>>

\* ------------------------------------------------------- values and NULL
Null == [null |-> TRUE, v |-> 0]
Num(n) == [null |-> FALSE, v |-> n]

\* Python truthiness of a query cell: None and 0 are falsy.
Truthy(x) == ~x.null /\ x.v # 0

RECURSIVE SumFn(_)
SumFn(f) ==
    IF DOMAIN f = {} THEN 0
    ELSE LET x == CHOOSE y \in DOMAIN f : TRUE
         IN  f[x] + SumFn([y \in DOMAIN f \ {x} |-> f[y]])

\* SQL SUM(expr) over the rows of a query: NULL when there is no row.
SqlSum(f) == IF DOMAIN f = {} THEN Null ELSE Num(SumFn(f))

\* SQL COUNT(expr) over the rows of a query (expr is never NULL here).
SqlCount(rows) == Num(Cardinality(rows))

\* a BETWEEN lo AND hi
Between(a, lo, hi) == lo <= a /\ a <= hi

\* What a metric function hands back: a value, or the exception it raised.
Returned(x) == [exc |-> "", arg |-> "", null |-> x.null, value |-> x.v]
Raised(e, a) == [exc |-> e, arg |-> a, null |-> FALSE, value |-> 0]

\* OrZero without the `if not data: data = 0`
OrZeroForgotten(x) == x

\* `if not data: data = 0` followed by `return data`
OrZero(x) == IF Truthy(x) THEN x ELSE Num(0)

\* A scorecard: its supplier (a Link to a Supplier, so the functions'
\* frappe.get_doc("Supplier", scorecard.supplier) finds the document and
\* supplier.name is scorecard.supplier) and its period.
NoScorecard == [supplier |-> "", start_date |-> 0, end_date |-> 0]
Scorecards == [supplier : ScorecardSuppliers, start_date : Dates, end_date : Dates]

\* ------------------------------------------------------------ the queries

\* FROM `tabPurchase Order Item` po_item, `tabPurchase Order` po
\* WHERE po.supplier = supplier AND po_item.parent = po.name
\*   AND po_item.schedule_date BETWEEN start_date AND end_date
OrderRows(sc) ==
    {r \in [po_item : po_item, po : po] :
        /\ r.po.supplier = sc.supplier
        /\ Between(r.po_item.schedule_date, sc.start_date, sc.end_date)
        /\ r.po_item.parent = r.po.name}

\* FROM po_item, pr_item, po, pr
\* WHERE po.supplier = supplier AND po_item.schedule_date BETWEEN ...
\*   AND pr_item.docstatus = 1 AND pr_item.purchase_order_item = po_item.name
\*   AND po_item.parent = po.name AND pr_item.parent = pr.name
ReceiptRows(sc) ==
    {r \in [po_item : po_item, pr_item : pr_item, po : po, pr : pr] :
        /\ r.po.supplier = sc.supplier
        /\ Between(r.po_item.schedule_date, sc.start_date, sc.end_date)
        /\ r.pr_item.docstatus = 1
        /\ r.pr_item.purchase_order_item = r.po_item.name
        /\ r.po_item.parent = r.po.name
        /\ r.pr_item.parent = r.pr.name}

\* FROM `tabPurchase Receipt Item` pr_item, `tabPurchase Receipt` pr
\* WHERE pr.supplier = supplier AND pr.posting_date BETWEEN ...
\*   AND pr_item.docstatus = 1 AND pr_item.parent = pr.name
ReceivedRows(sc) ==
    {r \in [pr_item : pr_item, pr : pr] :
        /\ r.pr.supplier = sc.supplier
        /\ Between(r.pr.posting_date, sc.start_date, sc.end_date)
        /\ r.pr_item.docstatus = 1
        /\ r.pr_item.parent = r.pr.name}

\* -------------------------------------------------------------- metrics

get_total_workdays(sc) ==
    LET delta == sc.end_date - sc.start_date
    IN  Returned(Num(delta))

get_item_workdays(sc) ==
    LET rows == {r \in OrderRows(sc) : r.po_item.received_qty < r.po_item.qty}
        total_item_days ==
            SqlSum([r \in rows |->
                (sc.end_date - r.po_item.schedule_date) * r.po_item.qty])
    IN  Returned(OrZero(total_item_days))

get_total_cost_of_shipments(sc) ==
    LET rows == {r \in OrderRows(sc) : r.po_item.docstatus = 1}
        data == SqlSum([r \in rows |-> r.po_item.base_amount])
    IN  Returned(IF Truthy(data) THEN data ELSE Num(0))

\* get_cost_of_on_time_shipments with the date test of get_on_time_shipments
get_cost_of_on_time_shipments_reversed(sc) ==
    LET rows == {r \in ReceiptRows(sc) :
                    r.po_item.schedule_date <= r.pr.posting_date}
        total_delivered_on_time_costs ==
            SqlSum([r \in rows |-> r.pr_item.base_amount])
    IN  Returned(IF Truthy(total_delivered_on_time_costs)
                 THEN total_delivered_on_time_costs ELSE Num(0))

get_cost_of_on_time_shipments(sc) ==
    LET rows == {r \in ReceiptRows(sc) :
                    r.po_item.schedule_date >= r.pr.posting_date}
        total_delivered_on_time_costs ==
            SqlSum([r \in rows |-> r.pr_item.base_amount])
    IN  Returned(IF Truthy(total_delivered_on_time_costs)
                 THEN total_delivered_on_time_costs ELSE Num(0))

\* Python's a - b on two returned numbers
Minus(a, b) ==
    IF a.exc # "" THEN a
    ELSE IF b.exc # "" THEN b
    ELSE IF a.null \/ b.null THEN Raised("TypeError", "")
    ELSE Returned(Num(a.value - b.value))

get_cost_of_delayed_shipments(sc) ==
    Minus(get_total_cost_of_shipments(sc), get_cost_of_on_time_shipments(sc))

\* rows of the first query of get_total_days_late
LateDeliveredRows(sc) ==
    {r \in ReceiptRows(sc) : r.po_item.schedule_date < r.pr.posting_date}

\* LateDeliveredDays with the operands of DATEDIFF swapped
LateDeliveredDaysSwapped(sc) ==
    SqlSum([r \in LateDeliveredRows(sc) |->
        (r.po_item.schedule_date - r.pr.posting_date) * r.pr_item.qty])

\* SUM(DATEDIFF(pr.posting_date, po_item.schedule_date) * pr_item.qty)
LateDeliveredDays(sc) ==
    SqlSum([r \in LateDeliveredRows(sc) |->
        (r.pr.posting_date - r.po_item.schedule_date) * r.pr_item.qty])

\* rows of the second query of get_total_days_late
MissedRows(sc) ==
    {r \in OrderRows(sc) : r.po_item.received_qty < r.po_item.qty}

\* MissedQty with the factor of get_item_workdays, po_item.qty
MissedQtyWholeLine(r) == r.po_item.qty

\* the quantity factor of a row of the second query
MissedQty(r) == r.po_item.qty - r.po_item.received_qty

\* SUM(DATEDIFF(end_date, po_item.schedule_date) * (po_item.qty - po_item.received_qty))
MissedDays(sc) ==
    SqlSum([r \in MissedRows(sc) |->
        (sc.end_date - r.po_item.schedule_date) * MissedQty(r)])

get_total_days_late(sc) ==
    LET total_delivered_late_days == OrZero(LateDeliveredDays(sc))
        total_missed_late_days == OrZero(MissedDays(sc))
    IN  Returned(Num(total_missed_late_days.v + total_delivered_late_days.v))

\* rows counted by get_on_time_shipments
OnTimeRows(sc) ==
    {r \in ReceiptRows(sc) :
        /\ r.po_item.schedule_date <= r.pr.posting_date
        /\ r.po_item.qty = r.pr_item.qty}

get_on_time_shipments(sc) ==
    LET total_items_delivered_on_time == SqlCount(OnTimeRows(sc))
    IN  Returned(OrZero(total_items_delivered_on_time))

get_total_shipments(sc) ==
    LET rows == {r \in OrderRows(sc) : r.po_item.docstatus = 1}
        data == SqlCount(rows)
    IN  Returned(OrZero(data))

\* get_late_shipments with its operands swapped
get_late_shipments_swapped(sc) ==
    Minus(get_on_time_shipments(sc), get_total_shipments(sc))

get_late_shipments(sc) ==
    Minus(get_total_shipments(sc), get_on_time_shipments(sc))

get_total_received(sc) ==
    Returned(OrZero(SqlCount(ReceivedRows(sc))))

get_total_received_amount(sc) ==
    Returned(OrZero(SqlSum([r \in ReceivedRows(sc) |->
        r.pr_item.received_qty * r.pr_item.base_rate])))

get_total_received_items(sc) ==
    Returned(OrZero(SqlSum([r \in ReceivedRows(sc) |-> r.pr_item.received_qty])))

get_total_rejected_amount(sc) ==
    Returned(OrZero(SqlSum([r \in ReceivedRows(sc) |->
        r.pr_item.rejected_qty * r.pr_item.base_rate])))

get_total_rejected_items(sc) ==
    Returned(OrZero(SqlSum([r \in ReceivedRows(sc) |-> r.pr_item.rejected_qty])))

get_total_accepted_amount(sc) ==
    Returned(OrZero(SqlSum([r \in ReceivedRows(sc) |->
        r.pr_item.qty * r.pr_item.base_rate])))

get_total_accepted_items(sc) ==
    Returned(OrZero(SqlSum([r \in ReceivedRows(sc) |-> r.pr_item.qty])))

\* SELECT SUM(po.total_qty) FROM po WHERE supplier, docstatus = 1,
\* transaction_date >= start_date, transaction_date <= end_date;  `... or 0`
get_ordered_qty(sc) ==
    LET rows == {o \in po :
                    /\ o.supplier = sc.supplier
                    /\ o.docstatus = 1
                    /\ o.transaction_date >= sc.start_date
                    /\ o.transaction_date <= sc.end_date}
    IN  Returned(OrZero(SqlSum([o \in rows |-> o.total_qty])))

\* FROM rfq_item, rfq_sup, rfq
\* WHERE rfq_sup.supplier = supplier AND rfq.transaction_date BETWEEN ...
\*   AND rfq_item.docstatus = 1 AND rfq_item.parent = rfq.name
\*   AND rfq_sup.parent = rfq.name
RfqRows(sc) ==
    {r \in [rfq_item : rfq_item, rfq_sup : rfq_sup, rfq : rfq] :
        /\ r.rfq_sup.supplier = sc.supplier
        /\ Between(r.rfq.transaction_date, sc.start_date, sc.end_date)
        /\ r.rfq_item.docstatus = 1
        /\ r.rfq_item.parent = r.rfq.name
        /\ r.rfq_sup.parent = r.rfq.name}

\* FROM rfq_item, sq_item, rfq_sup, rfq, sq
\* WHERE (as above) AND sq_item.request_for_quotation_item = rfq_item.name
\*   AND sq_item.docstatus = 1 AND sq.supplier = supplier
\*   AND sq_item.parent = sq.name
SqRows(sc) ==
    {r \in [rfq_item : rfq_item, sq_item : sq_item, rfq_sup : rfq_sup,
            rfq : rfq, sq : sq] :
        /\ r.rfq_sup.supplier = sc.supplier
        /\ Between(r.rfq.transaction_date, sc.start_date, sc.end_date)
        /\ r.sq_item.request_for_quotation_item = r.rfq_item.name
        /\ r.sq_item.docstatus = 1
        /\ r.rfq_item.docstatus = 1
        /\ r.sq.supplier = sc.supplier
        /\ r.sq_item.parent = r.sq.name
        /\ r.rfq_item.parent = r.rfq.name
        /\ r.rfq_sup.parent = r.rfq.name}

get_rfq_total_number(sc) == Returned(OrZero(SqlCount(RfqRows(sc))))

get_rfq_total_items(sc) == Returned(OrZero(SqlCount(RfqRows(sc))))

get_sq_total_number(sc) == Returned(OrZero(SqlCount(SqRows(sc))))

get_sq_total_items(sc) == Returned(OrZero(SqlCount(SqRows(sc))))

get_rfq_response_days(sc) ==
    LET total_sq_days ==
            SqlSum([r \in SqRows(sc) |->
                r.sq.transaction_date - r.rfq.transaction_date])
    IN  Returned(OrZero(total_sq_days))

\* ------------------------------------------------ manual score aggregates

QualityFields ==
    <<"compliance_of_service", "quality_certificate",
      "technological_infrastructure", "financial_capacity", "market_image">>
DeliveryFields ==
    <<"on_time_delivery", "fast_response_to_urgent_requests",
      "shipping_document", "capacity_adequacy">>
PriceFields ==
    <<"payment_terms", "competitive_pricing", "on_time_offer", "revised_offer">>
CustomerSatisfactionFields ==
    <<"number_of_complaints", "approach_to_complaints",
      "quick_solution", "effective_solution">>

Range(seq) == {seq[i] : i \in DOMAIN seq}

ScoreFields ==
    Range(QualityFields) \cup Range(DeliveryFields) \cup Range(PriceFields)
        \cup Range(CustomerSatisfactionFields)

\* frappe.db.exists("Supplier Score", name)
ScoreExists(name) == \E d \in supplier_score : d.name = name

\* frappe.db.get_value("Supplier Score", name, fields): the tuple of the
\* fields' values, or None (here <<>>) when there is no such record.
ScoreGetValue(name, fields) ==
    IF ScoreExists(name)
    THEN LET d == CHOOSE d \in supplier_score : d.name = name
         IN  [i \in DOMAIN fields |-> d.score[fields[i]]]
    ELSE <<>>

\* x = x or 0
Or0(x) == IF Truthy(x) THEN x.v ELSE 0

\* UnpackAndSum without the `or 0` defaults: None + number raises TypeError
UnpackAndSumNoDefault(values, n) ==
    IF Len(values) # n \/ \E i \in 1..n : values[i].null
    THEN Raised("TypeError", "")
    ELSE Returned(Num(SumFn([i \in 1..n |-> values[i].v])))

\* a, b, ... = values;  a = a or 0; ...;  total_score = a + b + ...
\* Unpacking None raises TypeError.
UnpackAndSum(values, n) ==
    IF Len(values) # n THEN Raised("TypeError", "")
    ELSE Returned(Num(SumFn([i \in 1..n |-> Or0(values[i])])))

get_all_quality_score(sc) ==
    IF ~ScoreExists(sc.supplier)
    THEN Raised("ValidationError", sc.supplier)
    ELSE UnpackAndSum(ScoreGetValue(sc.supplier, QualityFields), 5)

get_all_delivery_score(sc) ==
    UnpackAndSum(ScoreGetValue(sc.supplier, DeliveryFields), 4)

get_all_price_score(sc) ==
    UnpackAndSum(ScoreGetValue(sc.supplier, PriceFields), 4)

get_all_customer_satisfaction_score(sc) ==
    UnpackAndSum(ScoreGetValue(sc.supplier, CustomerSatisfactionFields), 4)

\* ------------------------------------------------------- the catalogue

ScoreAggregates ==
    {"get_all_quality_score", "get_all_delivery_score", "get_all_price_score",
     "get_all_customer_satisfaction_score"}

\* The functions of the module that take a scorecard.
Catalogue ==
    {"get_total_workdays", "get_item_workdays", "get_total_cost_of_shipments",
     "get_cost_of_delayed_shipments", "get_cost_of_on_time_shipments",
     "get_total_days_late", "get_on_time_shipments", "get_late_shipments",
     "get_total_received", "get_total_received_amount",
     "get_total_received_items", "get_total_rejected_amount",
     "get_total_rejected_items", "get_total_accepted_amount",
     "get_total_accepted_items", "get_total_shipments", "get_ordered_qty",
     "get_rfq_total_number", "get_rfq_total_items", "get_sq_total_number",
     "get_sq_total_items", "get_rfq_response_days"} \cup ScoreAggregates

Call(fn, sc) ==
    CASE fn = "get_total_workdays" -> get_total_workdays(sc)
      [] fn = "get_item_workdays" -> get_item_workdays(sc)
      [] fn = "get_total_cost_of_shipments" -> get_total_cost_of_shipments(sc)
      [] fn = "get_cost_of_delayed_shipments" -> get_cost_of_delayed_shipments(sc)
      [] fn = "get_cost_of_on_time_shipments" -> get_cost_of_on_time_shipments(sc)
      [] fn = "get_total_days_late" -> get_total_days_late(sc)
      [] fn = "get_on_time_shipments" -> get_on_time_shipments(sc)
      [] fn = "get_late_shipments" -> get_late_shipments(sc)
      [] fn = "get_total_received" -> get_total_received(sc)
      [] fn = "get_total_received_amount" -> get_total_received_amount(sc)
      [] fn = "get_total_received_items" -> get_total_received_items(sc)
      [] fn = "get_total_rejected_amount" -> get_total_rejected_amount(sc)
      [] fn = "get_total_rejected_items" -> get_total_rejected_items(sc)
      [] fn = "get_total_accepted_amount" -> get_total_accepted_amount(sc)
      [] fn = "get_total_accepted_items" -> get_total_accepted_items(sc)
      [] fn = "get_total_shipments" -> get_total_shipments(sc)
      [] fn = "get_ordered_qty" -> get_ordered_qty(sc)
      [] fn = "get_rfq_total_number" -> get_rfq_total_number(sc)
      [] fn = "get_rfq_total_items" -> get_rfq_total_items(sc)
      [] fn = "get_sq_total_number" -> get_sq_total_number(sc)
      [] fn = "get_sq_total_items" -> get_sq_total_items(sc)
      [] fn = "get_rfq_response_days" -> get_rfq_response_days(sc)
      [] fn = "get_all_quality_score" -> get_all_quality_score(sc)
      [] fn = "get_all_delivery_score" -> get_all_delivery_score(sc)
      [] fn = "get_all_price_score" -> get_all_price_score(sc)
      [] fn = "get_all_customer_satisfaction_score" ->
            get_all_customer_satisfaction_score(sc)

\* ------------------------------------------------------- path validation
\* A path is the sequence of its components, the text between its dots:
\* "a.b" is <<"a", "b">> and a path without a dot has one component.

\* The names the module imports, and the classes it defines.
ImportedNames == {"sys", "frappe", "_", "Document", "Sum", "getdate"}
ClassNames == {"VariablePathNotFound", "SupplierScorecardVariable"}

\* The attributes of sys.modules[__name__].
ModuleAttributes == Catalogue \cup ImportedNames \cup ClassNames \cup {"__name__"}

\* hasattr(sys.modules[__name__], name)
HasAttr(name) == name \in ModuleAttributes

\* "." in self.path
IsDotted(path) == Len(path) > 1

\* The objects a dotted name reaches from a top-level module.
PythonObjects ==
    {<<"frappe">>, <<"frappe", "utils">>, <<"frappe", "utils", "getdate">>,
     <<"erpnext">>, <<"erpnext", "buying">>, <<"sys">>, <<"sys", "path">>}

\* import_string_path(path) of supplier_scorecard_period: import the first
\* component, then getattr along the others.  The exception it ends in, or "".
import_string_path(path) ==
    IF path[1] = "" THEN "ValueError"
    ELSE IF <<path[1]>> \notin PythonObjects THEN "ImportError"
    ELSE IF \E n \in 2..Len(path) : SubSeq(path, 1, n) \notin PythonObjects
         THEN "AttributeError"
    ELSE ""

CouldNotFindPath(path) ==
    [exc |-> "VariablePathNotFound", message |-> <<"Could not find path for ", path>>]
Valid == [exc |-> "", message |-> <<>>]
Propagated(e) == [exc |-> e, message |-> <<>>]

\* SupplierScorecardVariable.validate_path_exists: how it ends.
validate_path_exists(path) ==
    IF IsDotted(path)
    THEN LET e == import_string_path(path)
         IN  IF e = "" THEN Valid
             ELSE IF e = "AttributeError" THEN CouldNotFindPath(path)
             ELSE Propagated(e)
    ELSE IF ~HasAttr(path[1]) THEN CouldNotFindPath(path)
    ELSE Valid

\* The paths users enter.
BarePaths ==
    {<<n>> : n \in ModuleAttributes \cup {"not_a_real_function", "get_total", ""}}
DottedPaths ==
    PythonObjects \cup
    {<<"frappe", "utils", "nothing">>, <<"frappe", "nothing", "getdate">>,
     <<"nomodule", "get_total_workdays">>, <<"", "get_total_workdays">>,
     <<"get_total_workdays", "">>, <<"erpnext", "selling">>}
Paths == BarePaths \cup {p \in DottedPaths : Len(p) > 1}

\* ------------------------------------------------------------ the state

NotRun == [exc |-> "not run", arg |-> "", null |-> FALSE, value |-> 0]
NoResults == [fn \in Catalogue |-> NotRun]
NoValidation == [path |-> <<>>, exc |-> "", message |-> <<>>]

Init ==
    /\ po = {} /\ po_item = {} /\ pr = {} /\ pr_item = {}
    /\ rfq = {} /\ rfq_item = {} /\ rfq_sup = {} /\ sq = {} /\ sq_item = {}
    /\ supplier_score = {}
    /\ variables = {}
    /\ validation = NoValidation
    /\ scorecard = NoScorecard
    /\ results = NoResults

\* Execution is request-scoped: a request changes the store, evaluates a
\* scorecard period, or saves a variable.  Between requests nothing is held.
Idle == scorecard = NoScorecard /\ validation = NoValidation

\* A request that only changes the store returns nothing.
Forget == UNCHANGED <<scorecard, results, validation>>

\* ----------------------------------------------------- purchase orders

\* A draft purchase order of one line.
InsertPurchaseOrder(n, s, td, sd, q, rate) ==
    /\ Idle
    /\ \A o \in po : o.name # n
    /\ td <= sd
    /\ LET line == n
       IN  /\ po' = po \cup {[name |-> n, supplier |-> s, transaction_date |-> td,
                              total_qty |-> q, docstatus |-> 0]}
           /\ po_item' = po_item \cup
                {[name |-> line, parent |-> n, schedule_date |-> sd, qty |-> q,
                  received_qty |-> 0, base_amount |-> q * rate, docstatus |-> 0]}
    /\ Forget
    /\ UNCHANGED <<pr, pr_item, quoting, supplier_score, variables>>

SubmitPurchaseOrder(n) ==
    /\ Idle
    /\ \E o \in po : o.name = n /\ o.docstatus = 0
    /\ po' = {IF o.name = n THEN [o EXCEPT !.docstatus = 1] ELSE o : o \in po}
    /\ po_item' = {IF i.parent = n THEN [i EXCEPT !.docstatus = 1] ELSE i :
                        i \in po_item}
    /\ Forget
    /\ UNCHANGED <<pr, pr_item, quoting, supplier_score, variables>>

\* A draft purchase receipt of one line, made from the submitted order line
\* `line` (its supplier is the order's).  The line accepts q and rejects rej
\* of a received quantity in Qtys.  Receipts are numbered in the order of
\* their posting dates; no metric function reads the numbers.
InsertPurchaseReceipt(line, pd, q, rej, rate) ==
    /\ Idle
    /\ Cardinality(pr) < MaxReceipts
    /\ line.docstatus = 1
    /\ q + rej \in Qtys
    /\ \A r \in pr : r.posting_date <= pd
    /\ LET n == Cardinality(pr) + 1
           o == CHOOSE o \in po : o.name = line.parent
       IN  /\ pr' = pr \cup {[name |-> n, supplier |-> o.supplier,
                              posting_date |-> pd, docstatus |-> 0]}
           /\ pr_item' = pr_item \cup
                {[name |-> n, parent |-> n, purchase_order_item |-> line.name,
                  qty |-> q, rejected_qty |-> rej, received_qty |-> q + rej,
                  base_rate |-> rate, base_amount |-> q * rate, docstatus |-> 0]}
    /\ Forget
    /\ UNCHANGED <<po, po_item, quoting, supplier_score, variables>>

\* Submitting a receipt books its received quantity on the order line.
SubmitPurchaseReceipt(n) ==
    /\ Idle
    /\ \E r \in pr : r.name = n /\ r.docstatus = 0
    /\ pr' = {IF r.name = n THEN [r EXCEPT !.docstatus = 1] ELSE r : r \in pr}
    /\ pr_item' = {IF i.parent = n THEN [i EXCEPT !.docstatus = 1] ELSE i :
                        i \in pr_item}
    /\ LET booked(line) ==
                SumFn([i \in {i \in pr_item : i.parent = n /\
                                  i.purchase_order_item = line.name}
                       |-> i.received_qty])
       IN  po_item' = {[line EXCEPT !.received_qty = @ + booked(line)] :
                            line \in po_item}
    /\ Forget
    /\ UNCHANGED <<po, quoting, supplier_score, variables>>

\* ------------------------------------------------ requests for quotation

\* A draft request for quotation of one item, sent to the suppliers `to`.
InsertRfq(n, td, to) ==
    /\ Idle
    /\ \A r \in rfq : r.name # n
    /\ to # {}
    /\ LET item == n
       IN  /\ rfq' = rfq \cup {[name |-> n, transaction_date |-> td, docstatus |-> 0]}
           /\ rfq_item' = rfq_item \cup {[name |-> item, parent |-> n, docstatus |-> 0]}
           /\ rfq_sup' = rfq_sup \cup {[parent |-> n, supplier |-> s] : s \in to}
    /\ Forget
    /\ UNCHANGED <<buying, sq, sq_item, supplier_score, variables>>

SubmitRfq(n) ==
    /\ Idle
    /\ \E r \in rfq : r.name = n /\ r.docstatus = 0
    /\ rfq' = {IF r.name = n THEN [r EXCEPT !.docstatus = 1] ELSE r : r \in rfq}
    /\ rfq_item' = {IF i.parent = n THEN [i EXCEPT !.docstatus = 1] ELSE i :
                        i \in rfq_item}
    /\ Forget
    /\ UNCHANGED <<buying, rfq_sup, sq, sq_item, supplier_score, variables>>

\* A draft supplier quotation of one item answering the submitted request
\* item `item`.
InsertQuotation(n, s, td, item) ==
    /\ Idle
    /\ \A q \in sq : q.name # n
    /\ item.docstatus = 1
    /\ LET line == n
       IN  /\ sq' = sq \cup {[name |-> n, supplier |-> s, transaction_date |-> td,
                              docstatus |-> 0]}
           /\ sq_item' = sq_item \cup
                {[name |-> line, parent |-> n,
                  request_for_quotation_item |-> item.name, docstatus |-> 0]}
    /\ Forget
    /\ UNCHANGED <<buying, rfq, rfq_item, rfq_sup, supplier_score, variables>>

SubmitQuotation(n) ==
    /\ Idle
    /\ \E q \in sq : q.name = n /\ q.docstatus = 0
    /\ sq' = {IF q.name = n THEN [q EXCEPT !.docstatus = 1] ELSE q : q \in sq}
    /\ sq_item' = {IF i.parent = n THEN [i EXCEPT !.docstatus = 1] ELSE i :
                        i \in sq_item}
    /\ Forget
    /\ UNCHANGED <<buying, rfq, rfq_item, rfq_sup, supplier_score, variables>>

\* ------------------------------------------------------ supplier scores

\* The number of sub-scores entered in the store.
ScoresEntered ==
    SumFn([d \in supplier_score |->
        Cardinality({f \in ScoreFields : ~d.score[f].null})])

\* A new Supplier Score record with no sub-score entered.
InsertSupplierScore(s) ==
    /\ Idle
    /\ ~ScoreExists(s)
    /\ supplier_score' = supplier_score \cup
            {[name |-> s, score |-> [f \in ScoreFields |-> Null]]}
    /\ Forget
    /\ UNCHANGED <<buying, quoting, variables>>

\* Entering one sub-score of a record.
EnterScore(s, f, v) ==
    /\ Idle
    /\ ScoresEntered < MaxScoresEntered
    /\ \E d \in supplier_score : d.name = s /\ d.score[f].null
    /\ supplier_score' =
            {IF d.name = s THEN [d EXCEPT !.score[f] = Num(v)] ELSE d :
                d \in supplier_score}
    /\ Forget
    /\ UNCHANGED <<buying, quoting, variables>>

\* ------------------------------------------------------------ evaluation

\* One request evaluates the metric functions for a scorecard period.
EvaluateScorecard(sc) ==
    /\ Idle
    /\ scorecard' = sc
    /\ results' = [fn \in Catalogue |-> Call(fn, sc)]
    /\ UNCHANGED <<buying, quoting, supplier_score, paths>>

\* Saving a Supplier Scorecard Variable: validate(), and the insert when it
\* did not throw.
SaveVariable(path) ==
    /\ Idle
    /\ Cardinality(variables) < MaxVariables
    /\ LET v == validate_path_exists(path)
       IN  /\ validation' = [path |-> path, exc |-> v.exc, message |-> v.message]
           /\ variables' = IF v.exc = "" THEN variables \cup {path} ELSE variables
    /\ UNCHANGED <<buying, quoting, supplier_score, scorecard, results>>

\* The request ends; what it returned or threw has gone to the caller.
EndRequest ==
    /\ ~Idle
    /\ scorecard' = NoScorecard
    /\ results' = NoResults
    /\ validation' = NoValidation
    /\ UNCHANGED <<buying, quoting, supplier_score, variables>>

\* ------------------------------------------------------ specifications

NextBuying ==
    \/ \E n \in OrderNames, s \in Suppliers, td \in Dates, sd \in Dates,
            q \in Qtys, rate \in Rates : InsertPurchaseOrder(n, s, td, sd, q, rate)
    \/ \E o \in po : SubmitPurchaseOrder(o.name)
    \/ \E line \in po_item, pd \in Dates, q \in Qtys, rej \in {0},
            rate \in Rates : InsertPurchaseReceipt(line, pd, q, rej, rate)
    \/ \E r \in pr : SubmitPurchaseReceipt(r.name)

NextQuoting ==
    \/ \E n \in RfqNames, td \in Dates, to \in SUBSET Suppliers : InsertRfq(n, td, to)
    \/ \E r \in rfq : SubmitRfq(r.name)
    \/ \E n \in QuotationNames, s \in Suppliers, td \in Dates, item \in rfq_item :
            InsertQuotation(n, s, td, item)
    \/ \E q \in sq : SubmitQuotation(q.name)

NextScores ==
    \/ \E s \in Suppliers : InsertSupplierScore(s)
    \/ \E s \in Suppliers, f \in ScoreFields, v \in ScoreValues : EnterScore(s, f, v)

NextEvaluate == (\E sc \in Scorecards : EvaluateScorecard(sc)) \/ EndRequest

NextPaths == (\E path \in Paths : SaveVariable(path)) \/ EndRequest

Next == NextBuying \/ NextQuoting \/ NextScores \/ NextEvaluate \/ NextPaths

\* The documents and entered sub-scores the store holds.
StoreSize ==
    Cardinality(po) + Cardinality(pr) + Cardinality(rfq) + Cardinality(sq)
        + Cardinality(supplier_score) + ScoresEntered + Cardinality(variables)

\* A store of at most MaxDocuments documents.
Small == StoreSize <= MaxDocuments

\* The requests that change the tables the catalogue reads, kept to a
\* small store.
NextStoreSmall ==
    \/ \E n \in OrderNames, s \in Suppliers, td \in Dates, sd \in Dates,
            q \in Qtys, rate \in Rates :
                InsertPurchaseOrder(n, s, td, sd, q, rate) /\ Small'
    \/ \E o \in po : SubmitPurchaseOrder(o.name)
    \/ \E line \in po_item, pd \in Dates, q \in Qtys, rej \in RejectedQtys,
            rate \in Rates : InsertPurchaseReceipt(line, pd, q, rej, rate) /\ Small'
    \/ \E r \in pr : SubmitPurchaseReceipt(r.name)
    \/ \E n \in RfqNames, td \in Dates, to \in SUBSET Suppliers :
            InsertRfq(n, td, to) /\ Small'
    \/ \E r \in rfq : SubmitRfq(r.name)
    \/ \E n \in QuotationNames, s \in Suppliers, td \in Dates, item \in rfq_item :
            InsertQuotation(n, s, td, item) /\ Small'
    \/ \E q \in sq : SubmitQuotation(q.name)
    \/ \E s \in Suppliers : InsertSupplierScore(s) /\ Small'
    \/ \E s \in Suppliers, f \in ScoreFields, v \in ScoreValues :
            EnterScore(s, f, v) /\ Small'

\* The whole module over a store of at most MaxDocuments documents.
Spec ==
    Init /\ [][NextStoreSmall \/ NextEvaluate
                \/ (\E path \in Paths : SaveVariable(path) /\ Small')]_vars

\* The metric catalogue over every table it reads, in a store of at most
\* MaxDocuments documents.
SpecCatalogue == Init /\ [][NextStoreSmall \/ NextEvaluate]_vars

\* The purchase order and the receipts of the store (receipts that reject
\* nothing), and the evaluation.
SpecBuying == Init /\ [][NextBuying \/ NextEvaluate]_vars

\* The Supplier Score records, and the evaluation.
SpecScores == Init /\ [][NextScores \/ NextEvaluate]_vars

\* The Supplier Scorecard Variable documents.
SpecPaths == Init /\ [][NextPaths]_vars

\* ================================================================ claims

Evaluated == scorecard # NoScorecard
Validated == validation # NoValidation
Zero == Returned(Num(0))
Value(n) == Returned(Num(n))

\* The order of an order line.
OrderOf(line) == CHOOSE o \in po : o.name = line.parent
\* The receipt of a receipt line.
ReceiptOf(i) == CHOOSE r \in pr : r.name = i.parent

\* The order lines of the supplier scheduled in the period.
LinesInPeriod(sc) ==
    {l \in po_item :
        /\ OrderOf(l).supplier = sc.supplier
        /\ sc.start_date <= l.schedule_date /\ l.schedule_date <= sc.end_date}

\* The submitted receipt lines booked against an order line.
ReceiptLinesOf(l) ==
    {i \in pr_item : i.docstatus = 1 /\ i.purchase_order_item = l.name}

\* ---------------------------------------------------------------- C1
\* The store holds nothing for the period: no order of the supplier placed
\* or scheduled in it, no receipt posted in it, no request for quotation
\* sent to the supplier in it, no quotation of the supplier in it.
NoMatchingData(sc) ==
    /\ LinesInPeriod(sc) = {}
    /\ ~\E o \in po : o.supplier = sc.supplier
            /\ sc.start_date <= o.transaction_date
            /\ o.transaction_date <= sc.end_date
    /\ ~\E r \in pr : r.supplier = sc.supplier
            /\ sc.start_date <= r.posting_date /\ r.posting_date <= sc.end_date
    /\ ~\E r \in rfq, t \in rfq_sup : t.parent = r.name /\ t.supplier = sc.supplier
            /\ sc.start_date <= r.transaction_date
            /\ r.transaction_date <= sc.end_date
    /\ ~\E q \in sq : q.supplier = sc.supplier
            /\ sc.start_date <= q.transaction_date
            /\ q.transaction_date <= sc.end_date

\* The metric functions that aggregate rows of the purchasing tables.
QueryMetrics == Catalogue \ ({"get_total_workdays"} \cup ScoreAggregates)

\* C1 as stated: for a period the store holds no matching order, receipt,
\* request or quotation rows for, every metric function of the catalogue
\* returns exactly 0, never null and never an error.
C1_AllMetricsZero ==
    (Evaluated /\ NoMatchingData(scorecard)) =>
        \A fn \in Catalogue : results[fn] = Zero

\* C1 as amended: for such a period every metric function of the catalogue
\* other than get_total_workdays and the four get_all_*_score functions
\* returns exactly 0, never null and never an error.
C1_QueryMetricsZero ==
    (Evaluated /\ NoMatchingData(scorecard)) =>
        \A fn \in QueryMetrics : results[fn] = Zero

\* A period without matching rows evaluated over a store that holds a
\* submitted order and a submitted receipt of another period or supplier.
C1_Witness ==
    /\ Evaluated /\ NoMatchingData(scorecard)
    /\ \E l \in po_item : l.docstatus = 1 /\ ReceiptLinesOf(l) # {}
    /\ \A fn \in QueryMetrics : results[fn] = Zero

\* ---------------------------------------------------------------- C2
\* The receipt lines the claim counts: submitted, booked against an order
\* line of the supplier scheduled in the period, of the order line's
\* quantity, posted on or before the schedule date.
ClaimedOnTimeLines(sc) ==
    {i \in pr_item :
        /\ i.docstatus = 1
        /\ \E l \in LinesInPeriod(sc) :
                /\ i.purchase_order_item = l.name
                /\ i.qty = l.qty
                /\ ReceiptOf(i).posting_date <= l.schedule_date}

\* C2: get_on_time_shipments counts exactly the submitted receipt lines of
\* an order line of the supplier scheduled in the period whose quantity is
\* the order line's and whose posting date is on or before the schedule
\* date; a line of 10 received in full the day before its schedule date
\* gives get_on_time_shipments = 1 and get_late_shipments = 0.
C2_OnTimeCountsEarlyReceipts ==
    Evaluated =>
        /\ results["get_on_time_shipments"] =
                Value(Cardinality(ClaimedOnTimeLines(scorecard)))
        /\ (/\ Cardinality(LinesInPeriod(scorecard)) = 1
            /\ Cardinality(pr_item) = 1
            /\ \E l \in LinesInPeriod(scorecard), i \in pr_item :
                    /\ l.docstatus = 1 /\ i.docstatus = 1
                    /\ i.purchase_order_item = l.name
                    /\ l.qty = 10 /\ i.qty = 10 /\ l.received_qty = 10
                    /\ ReceiptOf(i).posting_date = l.schedule_date - 1)
            => /\ results["get_on_time_shipments"] = Value(1)
               /\ results["get_late_shipments"] = Zero

\* ---------------------------------------------------------------- C3
\* C3: on a path without a dot validate_path_exists accepts the path if and
\* only if it is the name of a metric function of the catalogue, and rejects
\* every other bare name with VariablePathNotFound.
C3_BareNameIffCatalogue ==
    (Validated /\ ~IsDotted(validation.path)) =>
        IF validation.path[1] \in Catalogue
        THEN validation.exc = ""
        ELSE validation.exc = "VariablePathNotFound"

\* ---------------------------------------------------------------- C4
\* C4: on a dotted path every failure of import_string_path ends validation
\* with VariablePathNotFound, its message holding the path's text; none
\* leaves validation successful or surfaces as another kind of error.
C4_DottedFailureIsPathNotFound ==
    (Validated /\ IsDotted(validation.path)
        /\ import_string_path(validation.path) # "") =>
        /\ validation.exc = "VariablePathNotFound"
        /\ validation.message = <<"Could not find path for ", validation.path>>

\* ---------------------------------------------------------------- C5
\* C5: when no Supplier Score record exists for the scorecard's supplier,
\* each of the four manual score aggregates ends in the reported 'supplier
\* not found' error naming the supplier.
C5_MissingScoreRecordIsReported ==
    (Evaluated /\ ~\E d \in supplier_score : d.name = scorecard.supplier) =>
        \A fn \in ScoreAggregates :
            results[fn] = Raised("ValidationError", scorecard.supplier)

\* ---------------------------------------------------------------- C6
\* The sum of the sub-scores `fields` of record d, an unset one counting 0.
ClaimedScore(d, fields) ==
    SumFn([i \in DOMAIN fields |->
        IF d.score[fields[i]].null THEN 0 ELSE d.score[fields[i]].v])

\* C6: when a Supplier Score record exists for the supplier, each manual
\* score aggregate returns the sum of its tuple of sub-score fields, every
\* unset field counting 0.
C6_ScoreIsSumOfEnteredFields ==
    Evaluated =>
        \A d \in supplier_score : d.name = scorecard.supplier =>
            /\ results["get_all_quality_score"] =
                    Value(ClaimedScore(d, QualityFields))
            /\ results["get_all_delivery_score"] =
                    Value(ClaimedScore(d, DeliveryFields))
            /\ results["get_all_price_score"] =
                    Value(ClaimedScore(d, PriceFields))
            /\ results["get_all_customer_satisfaction_score"] =
                    Value(ClaimedScore(d, CustomerSatisfactionFields))

\* A record with only compliance_of_service = 3 entered: the quality score
\* is 3 and the other aggregates are 0.
C6_Witness ==
    /\ Evaluated
    /\ \E d \in supplier_score :
            /\ d.name = scorecard.supplier
            /\ d.score["compliance_of_service"] = Num(3)
            /\ \A f \in ScoreFields \ {"compliance_of_service"} : d.score[f].null
    /\ results["get_all_quality_score"] = Value(3)
    /\ results["get_all_delivery_score"] = Zero

\* ---------------------------------------------------------------- C7
\* The late days of the receipt lines of order line l received late.
ClaimedLateReceivedDays(l) ==
    SumFn([i \in {i \in ReceiptLinesOf(l) :
                    ReceiptOf(i).posting_date > l.schedule_date} |->
        (ReceiptOf(i).posting_date - l.schedule_date) * i.qty])

\* The late days of the quantity of order line l still unreceived.
ClaimedOverdueDays(l, sc) ==
    IF l.received_qty < l.qty
    THEN (sc.end_date - l.schedule_date) * (l.qty - l.received_qty)
    ELSE 0

\* The units of order line l that each query of get_total_days_late counts.
UnitsReceivedLate(l, sc) ==
    SumFn([r \in {r \in LateDeliveredRows(sc) : r.po_item = l} |-> r.pr_item.qty])
UnitsMissed(l, sc) ==
    SumFn([r \in {r \in MissedRows(sc) : r.po_item = l} |-> MissedQty(r)])

\* Order line l is received in full, every receipt on or before its date.
InFullOnTime(l) ==
    /\ l.received_qty = l.qty
    /\ \A i \in ReceiptLinesOf(l) : ReceiptOf(i).posting_date <= l.schedule_date

\* C7: get_total_days_late is the late days of the receipt lines received
\* late (posting date minus schedule date, times the receipt line's qty)
\* plus the late days of the order quantity still unreceived (end date
\* minus schedule date, times qty - received_qty); no ordered unit is
\* counted by both, i.e. the units of an order line with quantity missing
\* that the two queries count never add up to more than the line's qty;
\* a line received in full on or before its schedule date contributes 0.
C7_DaysLateIsTwoDisjointSums ==
    Evaluated =>
        /\ results["get_total_days_late"] =
                Value(SumFn([l \in LinesInPeriod(scorecard) |->
                    ClaimedLateReceivedDays(l)
                        + ClaimedOverdueDays(l, scorecard)]))
        /\ \A l \in LinesInPeriod(scorecard) :
                /\ UnitsMissed(l, scorecard) > 0 =>
                        UnitsReceivedLate(l, scorecard)
                            + UnitsMissed(l, scorecard) <= l.qty
                /\ InFullOnTime(l) =>
                        /\ UnitsReceivedLate(l, scorecard) = 0
                        /\ UnitsMissed(l, scorecard) = 0

\* An order line of which one part was received late and another part is
\* still missing at the end of the period, after its schedule date.
C7_Witness ==
    /\ Evaluated
    /\ \E l \in LinesInPeriod(scorecard) :
            /\ UnitsReceivedLate(l, scorecard) > 0
            /\ UnitsMissed(l, scorecard) > 0
            /\ scorecard.end_date > l.schedule_date
    /\ results["get_total_days_late"].value > 0

\* ---------------------------------------------------------------- C8
\* C8: get_late_shipments(s) = get_total_shipments(s) -
\* get_on_time_shipments(s), all three evaluated on the same store.
C8_LateIsTotalMinusOnTime ==
    Evaluated =>
        results["get_late_shipments"] =
            Value(results["get_total_shipments"].value
                    - results["get_on_time_shipments"].value)

\* A period with a confirmed order line and a receipt line counted on time.
C8_Witness ==
    /\ Evaluated
    /\ results["get_total_shipments"] = Value(1)
    /\ results["get_on_time_shipments"] = Value(1)
    /\ results["get_late_shipments"] = Zero

\* ---------------------------------------------------------------- C9
\* base_amount over the confirmed order lines scheduled in the period.
ClaimedTotalCost(sc) ==
    SumFn([l \in {l \in LinesInPeriod(sc) : l.docstatus = 1} |-> l.base_amount])

\* base_amount over the receipt lines posted on or before the schedule date
\* of the order line they are booked against.
ClaimedOnTimeCost(sc) ==
    SumFn([i \in {i \in pr_item :
                    /\ i.docstatus = 1
                    /\ \E l \in LinesInPeriod(sc) :
                            /\ i.purchase_order_item = l.name
                            /\ ReceiptOf(i).posting_date <= l.schedule_date}
           |-> i.base_amount])

\* C9: get_cost_of_delayed_shipments(s) = get_total_cost_of_shipments(s) -
\* get_cost_of_on_time_shipments(s), the total being base_amount over the
\* confirmed order lines scheduled in the period and the on-time part
\* base_amount over the receipt lines posted on or before the schedule date
\* of their order line.
C9_DelayedCostIsTotalMinusOnTime ==
    Evaluated =>
        /\ results["get_total_cost_of_shipments"] =
                Value(ClaimedTotalCost(scorecard))
        /\ results["get_cost_of_on_time_shipments"] =
                Value(ClaimedOnTimeCost(scorecard))
        /\ results["get_cost_of_delayed_shipments"] =
                Value(ClaimedTotalCost(scorecard) - ClaimedOnTimeCost(scorecard))

\* An order line of which half was received on time: the delayed cost is
\* the other half's.
C9_Witness ==
    /\ Evaluated
    /\ results["get_total_cost_of_shipments"] = Value(20)
    /\ results["get_cost_of_on_time_shipments"] = Value(10)
    /\ results["get_cost_of_delayed_shipments"] = Value(10)

\* --------------------------------------------------------------- C10
\* C10: get_total_workdays returns the number of calendar days of the
\* closed interval [start_date, end_date] (1 when both are the same day),
\* not clamped at 0 when the dates are inverted.
C10_WorkdaysCountsClosedInterval ==
    Evaluated =>
        results["get_total_workdays"] =
            Value(scorecard.end_date - scorecard.start_date + 1)

\* --------------------------------------------------------------- C11
\* C11: for every store and every period with start_date <= end_date,
\* get_on_time_shipments never exceeds get_total_shipments, so
\* get_late_shipments is never negative, also when several receipt lines
\* are booked against one order line.
C11_OnTimeNeverExceedsTotal ==
    (Evaluated /\ scorecard.start_date <= scorecard.end_date) =>
        /\ results["get_on_time_shipments"].value
                <= results["get_total_shipments"].value
        /\ results["get_late_shipments"].value >= 0

\* --------------------------------------------------------------- C12
\* C12: for every period with start_date <= end_date and every store whose
\* quantities are non-negative, get_total_days_late returns a value >= 0,
\* never null and never an error.
C12_DaysLateNeverNegative ==
    (Evaluated /\ scorecard.start_date <= scorecard.end_date) =>
        /\ results["get_total_days_late"].exc = ""
        /\ ~results["get_total_days_late"].null
        /\ results["get_total_days_late"].value >= 0

\* A period in which both queries of get_total_days_late have rows: a
\* receipt line posted after the schedule date and an order line not
\* received in full.
C12_Witness ==
    /\ Evaluated /\ scorecard.start_date <= scorecard.end_date
    /\ LateDeliveredRows(scorecard) # {}
    /\ MissedRows(scorecard) # {}
    /\ results["get_total_days_late"].value >= 5

====
